---- MODULE Spec2Model ----
(***************************************************************************)
(* Model of usbRecord-V2.py: class USBRecord driven by the sequence of the *)
(* __main__ block (open, preview, start_thread(start_record),              *)
(* start_time_mark, stop_record, video_slice, release_camera, __del__).    *)
(*                                                                         *)
(* Two threads exist: the facade (main) thread and the recording thread    *)
(* that runs start_record.  Every access of a field of the USBRecord       *)
(* object that the other thread can observe is a step of its own.  The     *)
(* camera, the video sink, the filesystem and the wall clock are the       *)
(* environment: a read may succeed or fail, the clock may tick between     *)
(* any two steps.                                                          *)
(*                                                                         *)
(* The client generalises __main__ in two ways the class allows: it may    *)
(* run up to MaxRecordings record/stop/slice rounds on the same object and *)
(* call start_time_mark up to MaxMarks times in a round.                   *)
(*                                                                         *)
(* The module function format_time is modelled by what it computes and     *)
(* prints, and is applied to a set of arguments in a specification of its  *)
(* own, SpecFmt.                                                           *)
(***************************************************************************)
EXTENDS Integers, Sequences, FiniteSets, TLC

\* ---------------------------------------------------------------- bounds
MaxClock == 3          \* the wall clock takes the values 0..MaxClock
Timeout == 2           \* the timeout argument of start_record, in clock ticks
MaxFrames == 2         \* frames the camera delivers to one recording at most
MaxRecordings == 2     \* record/stop/slice rounds on one USBRecord
MaxMarks == 2          \* calls of start_time_mark in one round
MaxTimes == 120        \* format_time is applied to every argument 0..MaxTimes

None == 0 - 1          \* Python's None where the other values are numbers

VARIABLES
    \* fields of the USBRecord object (__init__)
    camera,            \* "None" | "obj": self.camera
    is_stop_record,    \* self.is_stop_record
    record_mark,       \* self.record_mark
    start_mark_time,   \* self.start_mark_time: None or a clock value
    act_frame_fps,     \* self.act_frame_width/height/fps: "None" | "zero" | "ok"
    record_name,       \* self.record_name: None or the number of the recording
    filename,          \* self.filename: None or the number of the recording
    save_path,         \* self.save_path: "None" | "dir"
    \* environment
    clock,             \* time.time()
    devOpen,           \* the device handle behind self.camera is open
    releaseCalls,      \* calls of release() on the device handle
    \* The filesystem, projected on the names of the current recording: line 261
    \* gives every recording a name of its own, and no step reads another's files.
    videoFile,         \* the container file <filename> exists
    video,             \* its frames, in the order written (a frame is its pull number)
    dirMade,           \* the directory <save_path>/<record_name> exists
    images,            \* the images in it: <<index in the name, frame>>
    \* the recording thread: start_record
    rpc,               \* its position
    writer,            \* local writer: "none" | "open" | "unopened" | "closed"
    start_time,        \* local start_time
    frame,             \* local frame (the frame pulled in this iteration)
    pulled,            \* frames pulled successfully in this recording
    \* the facade thread: __main__
    fpc,               \* its position
    recCount,          \* recordings started so far
    markCalls,         \* calls of start_time_mark in this round
    \* video_slice locals
    frame_capture,     \* "None" | "open" | "unopened" | "released"
    frame_count,       \* local frame_count
    readPos,           \* frames the reader has delivered
    vs_ret,            \* the value video_slice returned (None: nothing)
    sliceError,        \* an exception was caught inside video_slice
    imageLost,         \* an imwrite of this extraction wrote no image
    exitCode,          \* None, or the status sys.exit was called with
    \* history variables (observations of the run, read by the properties only)
    markPending,       \* start_time_mark was called and no frame labelled since
    stopPending,       \* stop_record set the flag while the loop was running
    readsAfterStop,    \* camera reads begun after that, capped at 2
    failedRead,        \* a read of this recording has failed
    readAfterFail,     \* a read was made after a failed read
    pulledClosed,      \* a read was made while the device was not open
    raised,            \* the handler of line 294 was entered in this recording
    lastIterElapsed,   \* elapsed time at the end of the last complete iteration
    recAcc,            \* <<field, "r"|"w">> accesses of the recording thread
    facAcc,            \* those of the facade while the recording thread runs
    fsBefore,          \* dirMade and images when video_slice was entered
    relCamCalls,       \* calls of release_camera
    openFailed,        \* an open_record_camera call left the handle not open
    releaseRaised,     \* the release of line 366 raised
    \* format_time, called on its own
    times,             \* its argument (None: not called yet)
    timestamp_text     \* the string it returned, as a sequence of characters

objVars == <<camera, is_stop_record, record_mark, start_mark_time, act_frame_fps,
             record_name, filename, save_path>>
envVars == <<clock, devOpen, releaseCalls, videoFile, video, dirMade, images>>
recVars == <<rpc, writer, start_time, frame, pulled>>
facVars == <<fpc, recCount, markCalls>>
sliceVars == <<frame_capture, frame_count, readPos, vs_ret, sliceError, imageLost, exitCode>>
fmtVars == <<times, timestamp_text>>
histVars == <<markPending, stopPending, readsAfterStop, failedRead, readAfterFail,
              pulledClosed, raised, lastIterElapsed, recAcc, facAcc, fsBefore, relCamCalls,
              openFailed, releaseRaised>>
vars == <<objVars, envVars, recVars, facVars, sliceVars, histVars, fmtVars>>

NoFrame == [id |-> 0, label |-> None, anchored |-> FALSE, first |-> FALSE]

\* The recording thread is between the start of start_record and its return.
RecActive == rpc \notin {"idle", "done"}
\* The recording thread is inside the while loop of start_record.
InLoop == rpc \in {"read", "mark", "anchor_check", "anchor_set", "label", "write", "check"}

\* Field accesses: the recording thread's, and the facade's while it runs.
RecTouch(S) == recAcc' = recAcc \cup S
FacTouch(S) == facAcc' = IF RecActive THEN facAcc \cup S ELSE facAcc

\* __init__: no camera, flags false, every derived field None; no thread
\* started, nothing recorded, nothing observed.
NewObject ==
    /\ camera = "None" /\ is_stop_record = FALSE /\ record_mark = FALSE
    /\ start_mark_time = None /\ act_frame_fps = "None"
    /\ record_name = None /\ filename = None /\ save_path = "None"
    /\ clock = 0 /\ devOpen = FALSE /\ releaseCalls = 0
    /\ videoFile = FALSE /\ video = <<>>
    /\ dirMade = FALSE /\ images = {}
    /\ rpc = "idle" /\ writer = "none" /\ start_time = None
    /\ frame = NoFrame /\ pulled = 0
    /\ fpc = "open" /\ recCount = 0 /\ markCalls = 0
    /\ frame_capture = "None" /\ frame_count = 0 /\ readPos = 0
    /\ vs_ret = None /\ sliceError = FALSE /\ imageLost = FALSE /\ exitCode = None
    /\ markPending = FALSE /\ stopPending = FALSE /\ readsAfterStop = 0
    /\ failedRead = FALSE /\ readAfterFail = FALSE /\ pulledClosed = FALSE
    /\ raised = FALSE
    /\ lastIterElapsed = None /\ recAcc = {} /\ facAcc = {}
    /\ fsBefore = <<FALSE, {}>> /\ relCamCalls = 0
    /\ openFailed = FALSE /\ releaseRaised = FALSE

\* The program starts at line 385 with a new USBRecord; format_time has not
\* been called.
Init == NewObject /\ times = None /\ timestamp_text = <<>>

\* time.time() advances.  start_record alone reads the clock, so the ticks
\* that fall outside a run of it are left to the start of the next run.
Tick ==
    /\ RecActive
    /\ clock < MaxClock
    /\ clock' = clock + 1
    /\ UNCHANGED <<objVars, devOpen, releaseCalls, videoFile, video, dirMade, images,
                   recVars, facVars, sliceVars, histVars, fmtVars>>

\* ------------------------------------------------- format_time
\* A string is the sequence of its characters.
Digits == <<"0", "1", "2", "3", "4", "5", "6", "7", "8", "9">>

\* str(n) for an integer n >= 0: its decimal digits, no leading zero
RECURSIVE Decimal(_)
Decimal(n) ==
    IF n < 10 THEN <<Digits[n + 1]>>
    ELSE Decimal(n \div 10) \o <<Digits[(n % 10) + 1]>>

\* the format specification 0<width>d: zeros are put in front up to the
\* width, and a longer number keeps all its digits
RECURSIVE ZeroFill(_, _)
ZeroFill(s, width) == IF Len(s) >= width THEN s ELSE ZeroFill(<<"0">> \o s, width)
ZeroPad(n, width) == ZeroFill(Decimal(n), width)

\* divmod(a, b) for a >= 0, b > 0
divmod(a, b) == <<a \div b, a % b>>

\* lines 116-120 with "minutes, seconds = divmod(seconds, 60)": the hours are
\* not taken off before the minutes are computed
format_fields_HoursKept(times_) ==
    LET sm == divmod(times_, 1000)
        hr == divmod(sm[1], 3600)
        mi == divmod(sm[1], 60)
    IN  [hours |-> hr[1], minutes |-> mi[1], seconds |-> mi[2], ms |-> sm[2]]

\* lines 116-120: the four fields format_time prints
format_fields(times_) ==
    LET sm == divmod(times_, 1000)
        hr == divmod(sm[1], 3600)
        mi == divmod(hr[2], 60)
    IN  [hours |-> hr[1], minutes |-> mi[1], seconds |-> mi[2], ms |-> sm[2]]

\* line 122 with {ms:02d} for the milliseconds
format_time_ShortMs(times_) ==
    LET f == format_fields(times_)
    IN  ZeroPad(f.hours, 2) \o <<":">> \o ZeroPad(f.minutes, 2) \o <<":">>
            \o ZeroPad(f.seconds, 2) \o <<".">> \o ZeroPad(f.ms, 2)

\* line 122: f"{hours:02d}:{minutes:02d}:{seconds:02d}.{ms:03d}"
format_time(times_) ==
    LET f == format_fields(times_)
    IN  ZeroPad(f.hours, 2) \o <<":">> \o ZeroPad(f.minutes, 2) \o <<":">>
            \o ZeroPad(f.seconds, 2) \o <<".">> \o ZeroPad(f.ms, 3)

\* The arguments format_time is applied to: every small one, and those whose
\* fields are the ends and the middle of their ranges, up to 100 hours.
FmtInputs ==
    (0..MaxTimes) \cup
    { ((h * 60 + m) * 60 + s) * 1000 + x :
        h \in {0, 1, 9, 10, 99, 100}, m \in {0, 1, 59}, s \in {0, 1, 59},
        x \in {0, 1, 9, 10, 99, 100, 999} }

\* format_time is called with one of these arguments ...
InitFmt == NewObject /\ times \in FmtInputs /\ timestamp_text = <<>>

\* ... and returns (line 280: timestamp_text = format_time(...))
FmtCall ==
    /\ timestamp_text = <<>>
    /\ timestamp_text' = format_time(times)
    /\ UNCHANGED <<objVars, envVars, recVars, facVars, sliceVars, histVars, times>>

NextFmt == FmtCall

SpecFmt == InitFmt /\ [][NextFmt]_vars

\* ------------------------------------------------- open_record_camera
\* The outcomes of open_record_camera, as (camera, devOpen, act_frame_fps):
\* the device opens; VideoCapture stays closed (set() and get() then do
\* nothing and report 0); the constructor raises, caught at line 201.
OpenOutcomes ==
    { <<"obj", TRUE, "ok">>, <<"obj", FALSE, "zero">>, <<camera, devOpen, act_frame_fps>> }

\* ------------------------------------------------- start_record
\* line 251
RecInitMark ==
    /\ rpc = "init_mark"
    /\ record_mark' = FALSE
    /\ rpc' = "init_stop"
    /\ RecTouch({<<"record_mark", "w">>})
    /\ UNCHANGED <<camera, is_stop_record, start_mark_time, act_frame_fps, record_name,
                   filename, save_path, envVars, writer, start_time, frame, pulled,
                   facVars, sliceVars, markPending, stopPending, readsAfterStop,
                   failedRead, readAfterFail, pulledClosed, raised, lastIterElapsed, facAcc,
                   fsBefore, relCamCalls, openFailed, releaseRaised, fmtVars>>

\* line 252
RecInitStop ==
    /\ rpc = "init_stop"
    /\ is_stop_record' = FALSE
    /\ rpc' = "setup"
    /\ RecTouch({<<"is_stop_record", "w">>})
    /\ UNCHANGED <<camera, record_mark, start_mark_time, act_frame_fps, record_name,
                   filename, save_path, envVars, writer, start_time, frame, pulled,
                   facVars, sliceVars, markPending, stopPending, readsAfterStop,
                   failedRead, readAfterFail, pulledClosed, raised, lastIterElapsed, facAcc,
                   fsBefore, relCamCalls, openFailed, releaseRaised, fmtVars>>

\* lines 253-257: save_path, and open_record_camera when the camera is not open
RecSetup ==
    /\ rpc = "setup"
    /\ save_path' = "dir"
    /\ IF camera = "None" \/ ~devOpen
         THEN /\ \E o \in OpenOutcomes :
                   /\ camera' = o[1] /\ devOpen' = o[2] /\ act_frame_fps' = o[3]
                   /\ openFailed' = (openFailed \/ ~o[2])
              /\ RecTouch({<<"save_path", "w">>, <<"camera", "r">>, <<"camera", "w">>,
                           <<"act_frame_fps", "w">>})
         ELSE /\ UNCHANGED <<camera, devOpen, act_frame_fps, openFailed>>
              /\ RecTouch({<<"save_path", "w">>, <<"camera", "r">>})
    /\ rpc' = "writer"
    /\ UNCHANGED <<is_stop_record, record_mark, start_mark_time, record_name, filename,
                   clock, releaseCalls, videoFile, video, dirMade, images,
                   writer, start_time, frame, pulled, facVars, sliceVars,
                   markPending, stopPending, readsAfterStop, failedRead, readAfterFail,
                   pulledClosed, raised, lastIterElapsed, facAcc, fsBefore,
                   relCamCalls, releaseRaised, fmtVars>>

\* lines 259-270: the name of the recording, the VideoWriter, start_time.
\* VideoWriter raises on act_frame_fps None and may raise cv2.error otherwise
\* (caught at line 294); or the sink opens and creates the file, or stays
\* unopened without an error.
RecWriter ==
    /\ rpc = "writer"
    /\ record_name' = recCount
    /\ filename' = recCount
    /\ RecTouch({<<"record_name", "w">>, <<"filename", "w">>, <<"save_path", "r">>,
                 <<"act_frame_fps", "r">>})
    /\ video' = <<>> /\ dirMade' = FALSE /\ images' = {}
    /\ \/ /\ rpc' = "exit"
          /\ raised' = TRUE
          /\ videoFile' = FALSE
          /\ UNCHANGED <<writer, start_time>>
       \/ /\ act_frame_fps # "None"
          /\ rpc' = "read"
          /\ start_time' = clock
          /\ UNCHANGED raised
          /\ \/ /\ act_frame_fps = "ok"
                /\ writer' = "open"
                /\ videoFile' = TRUE
             \/ /\ writer' = "unopened"
                /\ videoFile' = FALSE
    /\ UNCHANGED <<camera, is_stop_record, record_mark, start_mark_time, act_frame_fps,
                   save_path, clock, devOpen, releaseCalls, frame, pulled,
                   facVars, sliceVars, markPending, stopPending, readsAfterStop,
                   failedRead, readAfterFail, pulledClosed, lastIterElapsed, facAcc,
                   fsBefore, relCamCalls, openFailed, releaseRaised, fmtVars>>

\* What one call of camera.read() in start_record leaves in the history.
ReadHistory ==
    /\ readsAfterStop' = IF stopPending /\ readsAfterStop < 2
                         THEN readsAfterStop + 1 ELSE readsAfterStop
    /\ readAfterFail' = (readAfterFail \/ failedRead)
    /\ pulledClosed' = (pulledClosed \/ ~devOpen)

\* line 273, ret true: a frame is pulled (only an open device delivers one)
RecReadOk ==
    /\ rpc = "read"
    /\ devOpen /\ pulled < MaxFrames
    /\ pulled' = pulled + 1
    /\ frame' = [NoFrame EXCEPT !.id = pulled + 1]
    /\ rpc' = "mark"
    /\ ReadHistory
    /\ RecTouch({<<"camera", "r">>})
    /\ UNCHANGED <<objVars, envVars, writer, start_time, facVars, sliceVars,
                   markPending, stopPending, failedRead, raised, lastIterElapsed, facAcc,
                   fsBefore, relCamCalls, openFailed, releaseRaised, fmtVars>>

\* lines 273, 292-293, ret false: a warning, and the loop goes round again
RecReadFail ==
    /\ rpc = "read"
    /\ rpc' = "read"
    /\ failedRead' = TRUE
    /\ lastIterElapsed' = clock - start_time
    /\ ReadHistory
    /\ RecTouch({<<"camera", "r">>})
    /\ UNCHANGED <<objVars, envVars, writer, start_time, frame, pulled, facVars,
                   sliceVars, markPending, stopPending, raised, facAcc, fsBefore,
                   relCamCalls, openFailed, releaseRaised, fmtVars>>

\* line 276 with writer.write(frame) inside the "if self.record_mark:" block:
\* a frame pulled while no timestamp is asked for is not written
RecMark_WriteMarked ==
    /\ rpc = "mark"
    /\ rpc' = IF record_mark THEN "anchor_check" ELSE "check"
    /\ RecTouch({<<"record_mark", "r">>})
    /\ UNCHANGED <<objVars, envVars, writer, start_time, frame, pulled, facVars,
                   sliceVars, markPending, stopPending, readsAfterStop, failedRead,
                   readAfterFail, pulledClosed, raised, lastIterElapsed, facAcc, fsBefore,
                   relCamCalls, openFailed, releaseRaised, fmtVars>>

\* line 276
RecMark ==
    /\ rpc = "mark"
    /\ rpc' = IF record_mark THEN "anchor_check" ELSE "write"
    /\ RecTouch({<<"record_mark", "r">>})
    /\ UNCHANGED <<objVars, envVars, writer, start_time, frame, pulled, facVars,
                   sliceVars, markPending, stopPending, readsAfterStop, failedRead,
                   readAfterFail, pulledClosed, raised, lastIterElapsed, facAcc, fsBefore,
                   relCamCalls, openFailed, releaseRaised, fmtVars>>

\* line 277
RecAnchorCheck ==
    /\ rpc = "anchor_check"
    /\ rpc' = IF start_mark_time = None THEN "anchor_set" ELSE "label"
    /\ RecTouch({<<"start_mark_time", "r">>})
    /\ UNCHANGED <<objVars, envVars, writer, start_time, frame, pulled, facVars,
                   sliceVars, markPending, stopPending, readsAfterStop, failedRead,
                   readAfterFail, pulledClosed, raised, lastIterElapsed, facAcc, fsBefore,
                   relCamCalls, openFailed, releaseRaised, fmtVars>>

\* line 278
RecAnchorSet ==
    /\ rpc = "anchor_set"
    /\ start_mark_time' = clock
    /\ frame' = [frame EXCEPT !.anchored = TRUE]
    /\ rpc' = "label"
    /\ RecTouch({<<"start_mark_time", "w">>})
    /\ UNCHANGED <<camera, is_stop_record, record_mark, act_frame_fps, record_name,
                   filename, save_path, envVars, writer, start_time, pulled, facVars,
                   sliceVars, markPending, stopPending, readsAfterStop, failedRead,
                   readAfterFail, pulledClosed, raised, lastIterElapsed, facAcc, fsBefore,
                   relCamCalls, openFailed, releaseRaised, fmtVars>>

\* lines 279-281: time.time() - self.start_mark_time raises TypeError when the
\* anchor is None again (caught at line 294); otherwise the frame is labelled.
RecLabel ==
    /\ rpc = "label"
    /\ RecTouch({<<"start_mark_time", "r">>})
    /\ IF start_mark_time = None
         THEN /\ rpc' = "exit"
              /\ raised' = TRUE
              /\ UNCHANGED <<frame, markPending>>
         ELSE /\ rpc' = "write"
              /\ frame' = [frame EXCEPT !.label = clock - start_mark_time,
                                        !.first = markPending]
              /\ markPending' = FALSE
              /\ UNCHANGED raised
    /\ UNCHANGED <<objVars, envVars, writer, start_time, pulled, facVars, sliceVars,
                   stopPending, readsAfterStop, failedRead, readAfterFail, pulledClosed,
                   lastIterElapsed, facAcc, fsBefore,
                   relCamCalls, openFailed, releaseRaised, fmtVars>>

\* line 283 with the handler inside the loop: the exception of the sink is
\* logged and the loop goes round again, as it does after a failed read
RecWrite_Retry ==
    /\ rpc = "write"
    /\ \/ /\ rpc' = "check"
          /\ video' = IF writer = "open" THEN Append(video, frame.id) ELSE video
          /\ UNCHANGED raised
       \/ /\ rpc' = "read"
          /\ raised' = TRUE
          /\ UNCHANGED video
    /\ UNCHANGED <<objVars, clock, devOpen, releaseCalls, videoFile, dirMade, images,
                   writer, start_time, frame, pulled, facVars, sliceVars, markPending,
                   stopPending, readsAfterStop, failedRead, readAfterFail, pulledClosed,
                   lastIterElapsed, recAcc, facAcc, fsBefore, relCamCalls, openFailed,
                   releaseRaised, fmtVars>>

\* line 283: the frame goes to the sink; an unopened sink drops it; the
\* sink may raise (caught at line 294).
RecWrite ==
    /\ rpc = "write"
    /\ \/ /\ rpc' = "check"
          /\ video' = IF writer = "open" THEN Append(video, frame.id) ELSE video
          /\ UNCHANGED raised
       \/ /\ rpc' = "exit"
          /\ raised' = TRUE
          /\ UNCHANGED video
    /\ UNCHANGED <<objVars, clock, devOpen, releaseCalls, videoFile, dirMade, images,
                   writer, start_time, frame, pulled, facVars, sliceVars, markPending,
                   stopPending, readsAfterStop, failedRead, readAfterFail, pulledClosed,
                   lastIterElapsed, recAcc, facAcc, fsBefore,
                   relCamCalls, openFailed, releaseRaised, fmtVars>>

\* lines 285-291: elapsed time, then the exit test
RecCheck ==
    /\ rpc = "check"
    /\ rpc' = IF is_stop_record \/ clock - start_time >= Timeout THEN "exit" ELSE "read"
    /\ lastIterElapsed' = clock - start_time
    /\ RecTouch({<<"is_stop_record", "r">>})
    /\ UNCHANGED <<objVars, envVars, writer, start_time, frame, pulled, facVars,
                   sliceVars, markPending, stopPending, readsAfterStop, failedRead,
                   readAfterFail, pulledClosed, raised, facAcc, fsBefore,
                   relCamCalls, openFailed, releaseRaised, fmtVars>>

\* start_record returns (after the break, or after the handler of line 294):
\* the local writer goes out of scope, which closes an open sink.
RecReturn ==
    /\ rpc = "exit"
    /\ rpc' = "done"
    /\ writer' = IF writer = "open" THEN "closed" ELSE writer
    /\ start_time' = None /\ frame' = NoFrame
    /\ recAcc' = {} /\ facAcc' = {}
    /\ UNCHANGED <<objVars, envVars, pulled, facVars, sliceVars, markPending,
                   stopPending, readsAfterStop, failedRead, readAfterFail, pulledClosed, raised,
                   lastIterElapsed, fsBefore, relCamCalls, openFailed, releaseRaised, fmtVars>>

RecStep ==
    \/ RecInitMark \/ RecInitStop \/ RecSetup \/ RecWriter
    \/ RecReadOk \/ RecReadFail \/ RecMark \/ RecAnchorCheck \/ RecAnchorSet
    \/ RecLabel \/ RecWrite \/ RecCheck \/ RecReturn

\* ------------------------------------------------- __main__ and the methods it calls
\* line 385: open_record_camera
FacOpen ==
    /\ fpc = "open"
    /\ \E o \in OpenOutcomes :
          /\ camera' = o[1] /\ devOpen' = o[2] /\ act_frame_fps' = o[3]
          /\ openFailed' = (openFailed \/ ~o[2])
    /\ fpc' = "preview"
    /\ UNCHANGED <<is_stop_record, record_mark, start_mark_time, record_name, filename,
                   save_path, clock, releaseCalls, videoFile, video, dirMade, images,
                   recVars, recCount, markCalls, sliceVars, markPending, stopPending,
                   readsAfterStop, failedRead, readAfterFail, pulledClosed, raised,
                   lastIterElapsed, recAcc, facAcc, fsBefore, relCamCalls, releaseRaised,
                   fmtVars>>

\* show_live_camera, lines 218-236, ret true: the frame is shown; the loop
\* goes on, or ends on the key "q" or on its timeout
FacPreviewFrame ==
    /\ fpc = "preview"
    /\ camera = "obj" /\ devOpen
    /\ fpc' \in {"preview", "start"}
    /\ UNCHANGED <<objVars, envVars, recVars, recCount, markCalls, sliceVars, histVars, fmtVars>>

\* show_live_camera, lines 218-222, ret false: release, sys.exit(1)
FacPreviewFail ==
    /\ fpc = "preview"
    /\ camera = "obj"
    /\ pulledClosed' = (pulledClosed \/ ~devOpen)
    /\ releaseCalls' = releaseCalls + 1
    /\ devOpen' = FALSE
    /\ exitCode' = 1
    /\ fpc' = "exiting"
    /\ UNCHANGED <<objVars, clock, videoFile, video, dirMade, images, recVars, recCount,
                   markCalls, frame_capture, frame_count, readPos, vs_ret, sliceError, imageLost,
                   markPending, stopPending, readsAfterStop, failedRead, readAfterFail,
                   raised, lastIterElapsed, recAcc, facAcc, fsBefore,
                   relCamCalls, openFailed, releaseRaised, fmtVars>>

\* show_live_camera, line 218 with self.camera None: AttributeError, which
\* nothing catches; the main thread ends with a traceback
FacPreviewCrash ==
    /\ fpc = "preview"
    /\ camera = "None"
    /\ exitCode' = 1
    /\ fpc' = "exiting"
    /\ UNCHANGED <<objVars, envVars, recVars, recCount, markCalls, frame_capture,
                   frame_count, readPos, vs_ret, sliceError, imageLost, histVars, fmtVars>>

\* line 389, start_thread lines 63-66: the recording thread starts
FacStartThread ==
    /\ fpc = "start"
    /\ rpc \in {"idle", "done"}
    /\ recCount < MaxRecordings
    /\ recCount' = recCount + 1
    /\ markCalls' = 0
    /\ rpc' = "init_mark"
    /\ writer' = "none" /\ start_time' = None /\ frame' = NoFrame /\ pulled' = 0
    /\ stopPending' = FALSE /\ readsAfterStop' = 0
    /\ failedRead' = FALSE /\ readAfterFail' = FALSE /\ raised' = FALSE
    /\ lastIterElapsed' = None /\ recAcc' = {} /\ facAcc' = {}
    /\ frame_capture' = "None" /\ frame_count' = 0 /\ readPos' = 0
    /\ sliceError' = FALSE /\ imageLost' = FALSE /\ fsBefore' = <<FALSE, {}>>
    /\ fpc' = "running"
    /\ UNCHANGED <<objVars, envVars, vs_ret, exitCode, markPending, pulledClosed,
                   relCamCalls, openFailed, releaseRaised, fmtVars>>

\* start_time_mark, line 306
FacMarkFlag ==
    /\ fpc = "running"
    /\ markCalls < MaxMarks
    /\ markCalls' = markCalls + 1
    /\ record_mark' = TRUE
    /\ markPending' = TRUE
    /\ fpc' = "mark_anchor"
    /\ FacTouch({<<"record_mark", "w">>})
    /\ UNCHANGED <<camera, is_stop_record, start_mark_time, act_frame_fps, record_name,
                   filename, save_path, envVars, recVars, recCount, sliceVars,
                   stopPending, readsAfterStop, failedRead, readAfterFail, pulledClosed, raised,
                   lastIterElapsed, recAcc, fsBefore,
                   relCamCalls, openFailed, releaseRaised, fmtVars>>

\* start_time_mark, line 307
FacMarkAnchor ==
    /\ fpc = "mark_anchor"
    /\ start_mark_time' = None
    /\ fpc' = "running"
    /\ FacTouch({<<"start_mark_time", "w">>})
    /\ UNCHANGED <<camera, is_stop_record, record_mark, act_frame_fps, record_name,
                   filename, save_path, envVars, recVars, recCount, markCalls, sliceVars,
                   markPending, stopPending, readsAfterStop, failedRead, readAfterFail,
                   pulledClosed, raised, lastIterElapsed, recAcc, fsBefore,
                   relCamCalls, openFailed, releaseRaised, fmtVars>>

\* stop_record, line 317
FacStop ==
    /\ fpc = "running"
    /\ is_stop_record' = TRUE
    /\ stopPending' = InLoop
    /\ fpc' = "join"
    /\ FacTouch({<<"is_stop_record", "w">>})
    /\ UNCHANGED <<camera, record_mark, start_mark_time, act_frame_fps, record_name,
                   filename, save_path, envVars, recVars, recCount, markCalls, sliceVars,
                   markPending, readsAfterStop, failedRead, readAfterFail, pulledClosed, raised,
                   lastIterElapsed, recAcc, fsBefore,
                   relCamCalls, openFailed, releaseRaised, fmtVars>>

\* stop_record with a join that does not wait for the thread (a join with a
\* timeout, or a start_record run after the call instead of in the thread)
FacJoin_NoWait ==
    /\ fpc = "join"
    /\ fpc' = "slice"
    /\ UNCHANGED <<objVars, envVars, recVars, recCount, markCalls, sliceVars, histVars, fmtVars>>

\* stop_record, lines 318-321: join returns once start_record has returned.
\* The target is the started thread start_thread returned, so none of the
\* handlers of lines 322-327 is entered.
FacJoin ==
    /\ fpc = "join"
    /\ rpc = "done"
    /\ fpc' = "slice"
    /\ UNCHANGED <<objVars, envVars, recVars, recCount, markCalls, sliceVars, histVars, fmtVars>>

\* video_slice, lines 337-343: the directory of the recording is made first.
\* os.path.join raises TypeError on a None name, which nothing catches.
FacSliceDir ==
    /\ fpc = "slice"
    /\ FacTouch({<<"save_path", "r">>, <<"record_name", "r">>})
    /\ fsBefore' = <<dirMade, images>>
    /\ frame_capture' = "None"
    /\ frame_count' = 0
    /\ sliceError' = FALSE /\ imageLost' = FALSE
    /\ IF record_name = None \/ save_path = "None"
         THEN /\ exitCode' = 1
              /\ fpc' = "exiting"
              /\ UNCHANGED dirMade
         ELSE /\ dirMade' = TRUE
              /\ fpc' = "slice_open"
              /\ UNCHANGED exitCode
    /\ UNCHANGED <<objVars, clock, devOpen, releaseCalls, videoFile, video, images,
                   recVars, recCount, markCalls, readPos, vs_ret,
                   markPending, stopPending, readsAfterStop, failedRead, readAfterFail,
                   pulledClosed, raised, lastIterElapsed, recAcc,
                   relCamCalls, openFailed, releaseRaised, fmtVars>>

\* The reader opens a container file that exists; one without a frame may
\* also be refused.
CanOpen == videoFile
CanRefuse == ~videoFile \/ Len(video) = 0

\* video_slice, lines 346-347, the reader is open
FacSliceOpen ==
    /\ fpc = "slice_open"
    /\ CanOpen
    /\ frame_capture' = "open"
    /\ readPos' = 0
    /\ fpc' = "slice_read"
    /\ FacTouch({<<"filename", "r">>})
    /\ UNCHANGED <<objVars, envVars, recVars, recCount, markCalls, frame_count, vs_ret,
                   sliceError, imageLost, exitCode, markPending, stopPending, readsAfterStop,
                   failedRead, readAfterFail, pulledClosed, raised, lastIterElapsed, recAcc,
                   fsBefore, relCamCalls, openFailed, releaseRaised, fmtVars>>

\* video_slice without the sys.exit(1) of line 349: an unopened reader goes on
\* into the read loop
FacSliceRefused_NoExit ==
    /\ fpc = "slice_open"
    /\ CanRefuse
    /\ frame_capture' = "unopened"
    /\ fpc' = "slice_read"
    /\ FacTouch({<<"filename", "r">>})
    /\ UNCHANGED <<objVars, envVars, recVars, recCount, markCalls, frame_count, readPos,
                   vs_ret, sliceError, imageLost, exitCode, markPending, stopPending,
                   readsAfterStop, failedRead, readAfterFail, pulledClosed, raised,
                   lastIterElapsed, recAcc, fsBefore,
                   relCamCalls, openFailed, releaseRaised, fmtVars>>

\* video_slice, lines 346-349, the reader is not open: sys.exit(1), which
\* raises SystemExit; the handler of line 362 does not catch it
FacSliceRefused ==
    /\ fpc = "slice_open"
    /\ CanRefuse
    /\ frame_capture' = "unopened"
    /\ exitCode' = 1
    /\ fpc' = "slice_finally"
    /\ FacTouch({<<"filename", "r">>})
    /\ UNCHANGED <<objVars, envVars, recVars, recCount, markCalls, frame_count, readPos,
                   vs_ret, sliceError, imageLost, markPending, stopPending, readsAfterStop,
                   failedRead, readAfterFail, pulledClosed, raised, lastIterElapsed, recAcc,
                   fsBefore, relCamCalls, openFailed, releaseRaised, fmtVars>>

\* video_slice, line 346 raises (cv2.error, MemoryError): frame_capture keeps
\* the None of line 337; the handler of line 362 logs
FacSliceRaise ==
    /\ fpc = "slice_open"
    /\ sliceError' = TRUE
    /\ fpc' = "slice_finally"
    /\ FacTouch({<<"filename", "r">>})
    /\ UNCHANGED <<objVars, envVars, recVars, recCount, markCalls, frame_capture,
                   frame_count, readPos, vs_ret, imageLost, exitCode, markPending,
                   stopPending, readsAfterStop, failedRead, readAfterFail, pulledClosed,
                   raised, lastIterElapsed, recAcc, fsBefore, relCamCalls, openFailed,
                   releaseRaised, fmtVars>>

\* video_slice with frame_count raised before the name of the image is built
FacSliceFrame_CountFirst ==
    /\ fpc = "slice_read"
    /\ readPos < Len(video)
    /\ images' = images \cup {<<frame_count + 1, video[readPos + 1]>>}
    /\ frame_count' = frame_count + 1
    /\ readPos' = readPos + 1
    /\ FacTouch({<<"record_name", "r">>})
    /\ UNCHANGED <<objVars, clock, devOpen, releaseCalls, videoFile, video, dirMade,
                   recVars, facVars, frame_capture, vs_ret, sliceError, imageLost, exitCode,
                   markPending, stopPending, readsAfterStop, failedRead, readAfterFail,
                   pulledClosed, raised, lastIterElapsed, recAcc, fsBefore,
                   relCamCalls, openFailed, releaseRaised, fmtVars>>

\* video_slice, lines 352-357, ret true: the frame becomes the image
\* <record_name>_frame_count_<frame_count>.jpg
FacSliceFrame ==
    /\ fpc = "slice_read"
    /\ readPos < Len(video)
    /\ images' = images \cup {<<frame_count, video[readPos + 1]>>}
    /\ frame_count' = frame_count + 1
    /\ readPos' = readPos + 1
    /\ FacTouch({<<"record_name", "r">>})
    /\ UNCHANGED <<objVars, clock, devOpen, releaseCalls, videoFile, video, dirMade,
                   recVars, facVars, frame_capture, vs_ret, sliceError, imageLost, exitCode,
                   markPending, stopPending, readsAfterStop, failedRead, readAfterFail,
                   pulledClosed, raised, lastIterElapsed, recAcc, fsBefore,
                   relCamCalls, openFailed, releaseRaised, fmtVars>>

\* video_slice, lines 352-357, ret true, imwrite returns False: no image is
\* written; the result of imwrite is not looked at and frame_count goes up
FacSliceDropped ==
    /\ fpc = "slice_read"
    /\ readPos < Len(video)
    /\ imageLost' = TRUE
    /\ frame_count' = frame_count + 1
    /\ readPos' = readPos + 1
    /\ FacTouch({<<"record_name", "r">>})
    /\ UNCHANGED <<objVars, envVars, recVars, facVars, frame_capture, vs_ret,
                   sliceError, exitCode, markPending, stopPending, readsAfterStop,
                   failedRead, readAfterFail, pulledClosed, raised, lastIterElapsed,
                   recAcc, fsBefore, relCamCalls, openFailed, releaseRaised, fmtVars>>

\* video_slice, lines 352-356 and 362-363: imwrite raises, the handler logs
FacSliceFault ==
    /\ fpc = "slice_read"
    /\ readPos < Len(video)
    /\ readPos' = readPos + 1
    /\ sliceError' = TRUE
    /\ fpc' = "slice_finally"
    /\ FacTouch({<<"record_name", "r">>})
    /\ UNCHANGED <<objVars, envVars, recVars, recCount, markCalls, frame_capture,
                   frame_count, vs_ret, imageLost, exitCode, markPending, stopPending,
                   readsAfterStop, failedRead, readAfterFail, pulledClosed, raised,
                   lastIterElapsed, recAcc, fsBefore,
                   relCamCalls, openFailed, releaseRaised, fmtVars>>

\* video_slice, lines 352 and 358-361, ret false: end of the stream
FacSliceEnd ==
    /\ fpc = "slice_read"
    /\ readPos >= Len(video)
    /\ fpc' = "slice_finally"
    /\ UNCHANGED <<objVars, envVars, recVars, recCount, markCalls, sliceVars, histVars, fmtVars>>

\* video_slice, lines 364-366: the reader is released; then SystemExit goes
\* on to the caller, or the method ends without a return statement.  When the
\* constructor of line 346 raised, frame_capture is still None and
\* frame_capture.release() raises AttributeError out of the finally block,
\* which nothing catches.
FacSliceFinally ==
    /\ fpc = "slice_finally"
    /\ vs_ret' = None
    /\ IF frame_capture = "None"
         THEN /\ releaseRaised' = TRUE
              /\ exitCode' = 1
              /\ fpc' = "exiting"
              /\ UNCHANGED frame_capture
         ELSE /\ frame_capture' = "released"
              /\ fpc' = IF exitCode = None THEN "after_slice" ELSE "exiting"
              /\ UNCHANGED <<releaseRaised, exitCode>>
    /\ UNCHANGED <<objVars, envVars, recVars, recCount, markCalls, frame_count, readPos,
                   sliceError, imageLost, markPending, stopPending, readsAfterStop,
                   failedRead, readAfterFail, pulledClosed, raised, lastIterElapsed,
                   recAcc, facAcc, fsBefore, relCamCalls, openFailed, fmtVars>>

\* The client records once more on the same object (line 389 again).
FacAgain ==
    /\ fpc = "after_slice"
    /\ recCount < MaxRecordings
    /\ fpc' = "start"
    /\ UNCHANGED <<objVars, envVars, recVars, recCount, markCalls, sliceVars, histVars, fmtVars>>

\* release_camera, lines 370-372: release() is called on the handle whenever
\* self.camera is set; the field is not cleared
release_camera ==
    /\ relCamCalls' = relCamCalls + 1
    /\ IF camera # "None"
         THEN /\ releaseCalls' = releaseCalls + 1
              /\ devOpen' = FALSE
         ELSE UNCHANGED <<releaseCalls, devOpen>>

\* line 396
FacRelease ==
    /\ fpc = "after_slice"
    /\ release_camera
    /\ fpc' = "exiting"
    /\ UNCHANGED <<objVars, clock, videoFile, video, dirMade, images, recVars, recCount,
                   markCalls, sliceVars, markPending, stopPending, readsAfterStop,
                   failedRead, readAfterFail, pulledClosed, raised, lastIterElapsed, recAcc,
                   facAcc, fsBefore, openFailed, releaseRaised, fmtVars>>

\* lines 374-376: the interpreter ends and destroys my_camera
FacDel ==
    /\ fpc = "exiting"
    /\ release_camera
    /\ fpc' = "terminated"
    /\ UNCHANGED <<objVars, clock, videoFile, video, dirMade, images, recVars, recCount,
                   markCalls, sliceVars, markPending, stopPending, readsAfterStop,
                   failedRead, readAfterFail, pulledClosed, raised, lastIterElapsed, recAcc,
                   facAcc, fsBefore, openFailed, releaseRaised, fmtVars>>

FacStep ==
    \/ FacOpen \/ FacPreviewFrame \/ FacPreviewFail \/ FacPreviewCrash
    \/ FacStartThread \/ FacMarkFlag \/ FacMarkAnchor \/ FacStop \/ FacJoin
    \/ FacSliceDir \/ FacSliceOpen \/ FacSliceRefused \/ FacSliceRaise \/ FacSliceFrame
    \/ FacSliceDropped \/ FacSliceFault \/ FacSliceEnd \/ FacSliceFinally
    \/ FacAgain \/ FacRelease \/ FacDel

Next == Tick \/ RecStep \/ FacStep

Spec == Init /\ [][Next]_vars

\* ---------------------------------------------------------------- properties
\* No stop has been requested in this round.
NoStopRequested == fpc \in {"running", "mark_anchor"}
\* The facade is inside video_slice (or about to enter it, stop_record done).
SliceStates == {"slice", "slice_open", "slice_read", "slice_finally"}
\* The fields one thread wrote and the other read or wrote while start_record ran.
Fields(A) == {a[1] : a \in A}
Writes(A) == {a[1] : a \in {b \in A : b[2] = "w"}}
SharedFields ==
    (Writes(facAcc) \cap Fields(recAcc)) \cup (Writes(recAcc) \cap Fields(facAcc))
\* The images of a complete extraction: image i holds frame i + 1 of the file.
ExpectedImages == {<<i - 1, video[i]>> : i \in 1..Len(video)}
\* video_slice has returned to its caller and every imwrite wrote its image.
SliceReturned == fpc = "after_slice" /\ ~sliceError /\ ~imageLost
\* video_slice found the artifact unopenable; only the finally clause is left.
Refused == fpc = "slice_finally" /\ frame_capture = "unopened"

\* C1: once stop_record has set the flag while the loop was running, the
\* loop begins at most one further iteration (one further camera read),
\* whether reads succeed or fail, and start_record then returns with at
\* least one frame in the artifact and the writer closed (the sink having
\* opened, and no exception having ended the loop).
C1_StopEndsLoop ==
    stopPending =>
        /\ readsAfterStop <= 1
        /\ (rpc = "done" /\ ~raised /\ writer # "unopened") =>
               (Len(video) >= 1 /\ writer = "closed")

\* C2: with no stop requested, the loop is left by the iteration that ends
\* at elapsed >= timeout, whether its read succeeded or failed: the loop is
\* never back at its head after such an iteration; and when the loop is left
\* by the break, the frame of that iteration is the last one of the artifact.
C2_TimeoutEndsLoop ==
    /\ (NoStopRequested /\ rpc = "read") => lastIterElapsed < Timeout
    /\ (rpc = "exit" /\ ~raised /\ writer = "open") =>
           (Len(video) >= 1 /\ video[Len(video)] = frame.id)

\* C3: the first frame labelled after a call of start_time_mark has its
\* anchor set at that very frame (so its label counts from that frame).
C3_FirstLabelAnchored == frame.first => frame.anchored

\* C4: a failed camera read ends the recording loop: after it the thread is
\* not in the loop any more and no further read is made.
C4_ReadFailureTerminal == failedRead => (~InLoop /\ ~readAfterFail)

\* C5: camera.read is never called (in show_live_camera or in start_record)
\* while the device is not open.
C5_NoPullWhileClosed == ~pulledClosed

\* C6 as stated: is_stop_record is the only field one thread writes and the
\* other reads or writes while start_record runs.
C6_OnlyStopFlagShared == SharedFields \subseteq {"is_stop_record"}

\* C6 as amended: the fields one thread writes and the other reads or
\* writes while start_record runs are among is_stop_record, record_mark and
\* start_mark_time, and no others.
C6_SharedFields ==
    SharedFields \subseteq {"is_stop_record", "record_mark", "start_mark_time"}

\* C6 witness: all three fields have been shared in one recording.
C6_Witness ==
    /\ RecActive
    /\ SharedFields = {"is_stop_record", "record_mark", "start_mark_time"}

C9_RefusedLeavesNothing == Refused => <<dirMade, images>> = fsBefore

\* C9 as amended: when the artifact cannot be opened, video_slice raises
\* SystemExit(1) without a retry (the facade never opens or reads the
\* artifact again) and writes no image, but the directory of the recording
\* has been created.
C9_RefusedExits ==
    /\ Refused => (exitCode = 1 /\ images = {} /\ images = fsBefore[2]
                     /\ frame_count = 0 /\ dirMade)
    /\ exitCode = 1 => fpc \in {"slice_finally", "exiting", "terminated"}

\* C9 witness: the artifact was refused and the directory is new.
C9_Witness == Refused /\ dirMade /\ ~fsBefore[1]

\* C10: the second call of release_camera does not call release() on the
\* device handle again.
C10_SecondReleaseNoOp == relCamCalls >= 2 => releaseCalls <= 1

\* C11: on every path of a run the handle of a device that was opened is
\* released exactly once: no more than one release() ever reaches it, and at
\* the end of the run one has.  (The properties of an opened device are the
\* only way act_frame_fps becomes "ok".)
C11_ReleasedExactlyOnce ==
    act_frame_fps = "ok" =>
        /\ releaseCalls <= 1
        /\ fpc = "terminated" => releaseCalls = 1

\* C12: when open_record_camera has left the handle not open, the run is
\* aborted there: show_live_camera pulls no frame from it, start_record is not
\* started and video_slice is not entered.
C12_OpenFailureAborts ==
    openFailed =>
        /\ ~pulledClosed
        /\ rpc = "idle"
        /\ fpc \in {"preview", "exiting", "terminated"}

\* The string is DD:DD:DD.DDD, D a decimal digit.
IsDigit(c) == \E d \in 1..Len(Digits) : Digits[d] = c
TwoTwoTwoThree(s) ==
    /\ Len(s) = 12
    /\ s[3] = ":" /\ s[6] = ":" /\ s[9] = "."
    /\ \A i \in {1, 2, 4, 5, 7, 8, 10, 11, 12} : IsDigit(s[i])
\* The two examples: format_time(0) and format_time(3661001).
FmtExamples ==
    /\ times = 0 =>
           timestamp_text = <<"0", "0", ":", "0", "0", ":", "0", "0", ".", "0", "0", "0">>
    /\ times = 3661001 =>
           timestamp_text = <<"0", "1", ":", "0", "1", ":", "0", "1", ".", "0", "0", "1">>
\* format_time has returned.
Returned == timestamp_text # <<>>

RECURSIVE Number(_)
Number(s) ==
    IF s = <<>> THEN 0
    ELSE Number(SubSeq(s, 1, Len(s) - 1)) * 10
            + ((CHOOSE d \in 1..Len(Digits) : Digits[d] = s[Len(s)]) - 1)
Cut(s, c) ==
    LET i == CHOOSE k \in 1..Len(s) : s[k] = c /\ \A j \in 1..(k - 1) : s[j] # c
    IN  <<SubSeq(s, 1, i - 1), SubSeq(s, i + 1, Len(s))>>
ParseTime(s) ==
    LET h == Cut(s, ":")
        m == Cut(h[2], ":")
        x == Cut(m[2], ".")
    IN  ((Number(h[1]) * 60 + Number(m[1])) * 60 + Number(x[1])) * 1000 + Number(x[2])

\* C14: for every t >= 0 the fields format_time prints satisfy
\* ((hours*60 + minutes)*60 + seconds)*1000 + ms = t with 0 <= minutes < 60,
\* 0 <= seconds < 60 and 0 <= ms < 1000, and reading the returned string back
\* gives t.
C14_FieldsRecompose ==
    Returned =>
        LET f == format_fields(times)
        IN  /\ ((f.hours * 60 + f.minutes) * 60 + f.seconds) * 1000 + f.ms = times
            /\ f.hours >= 0
            /\ f.minutes \in 0..59 /\ f.seconds \in 0..59 /\ f.ms \in 0..999
            /\ ParseTime(timestamp_text) = times
C14_Witness == Returned /\ times = 360059999 /\ ParseTime(timestamp_text) = times

\* C15: when a recording is about to pull its first frame, start_record has
\* reset the stop flag to false (no stop having been requested in this round)
\* and cleared the anchor of the overlay: start_mark_time is None.
C15_EntryResets ==
    (rpc = "read" /\ pulled = 0 /\ ~failedRead) =>
        /\ NoStopRequested => is_stop_record = FALSE
        /\ start_mark_time = None

\* C16: a stop request is not lost: from the moment stop_record has set
\* is_stop_record (the facade then waits in join) the flag stays true.
C16_StopNotLost == fpc = "join" => is_stop_record

\* C17: once an exception of the video sink (opening the writer, writing a
\* frame) has reached the handler of start_record, the recording is outside
\* its loop for good: no frame is pulled and none is written any more, and
\* start_record returns, so that join returns.
C17_SinkFailureFatal ==
    /\ [](raised => rpc \in {"exit", "done"})
    /\ [][(raised /\ raised') => (pulled' = pulled /\ video' = video)]_vars
C17_Witness ==
    /\ raised /\ markCalls = 0 /\ pulled >= 1 /\ Len(video) < pulled
    /\ rpc = "done" /\ fpc \in SliceStates

\* C18: video_slice leaves no reader unreleased behind, on whichever path it
\* is left, and the release of the finally block (line 366) never raises,
\* also when the constructor of the reader has raised.
C18_ReaderReleased ==
    /\ fpc \notin {"slice_open", "slice_read", "slice_finally"} =>
           frame_capture \in {"None", "released"}
    /\ ~releaseRaised

\* The frames 1..n in pull order, each once.
Upto(n) == [i \in 1..n |-> i]
\* The iteration holds a pulled frame that has not gone to the sink yet.
BeforeWrite == {"mark", "anchor_check", "anchor_set", "label", "write"}

====
